---- MODULE Spec2Model ----
(***************************************************************************)
(* Heresay voice notes: the App component (src/src/App.tsx) and the        *)
(* VoiceRecorder component (src/src/components/VoiceRecorder.tsx) as one   *)
(* state machine.  React state and refs are the variables; every handler   *)
(* runs to its first await in one step, and every continuation after an    *)
(* await (up to the next await that leaves the microtask queue) is one     *)
(* step.  The external collaborators (auth, database, AI, microphone)      *)
(* answer with any value of the bounded input sets, or fail.               *)
(*                                                                         *)
(* Handlers see the state of the latest render.  A button that is disabled *)
(* or not rendered cannot be clicked, except that stopRecording and        *)
(* saveNote, which carry their own guards, are also taken as requests in   *)
(* the states where their guard turns them away.  The audio data and the   *)
(* prompt text (with the dictionary hints) do not decide any transition:   *)
(* the AI answers are arbitrary.  A recorder's stop event is delivered     *)
(* some time after stop(), and the FileReader read of the recorded blob    *)
(* ends some time after it was started, with a load or an error event.     *)
(*                                                                         *)
(* App shows one of three tab panels, Record first (defaultValue="record"). *)
(* The Tabs components (./components/ui/tabs) are not part of the source   *)
(* at hand, and App passes nothing that decides whether the panel of a tab *)
(* that is not selected stays mounted, so both are modelled: in a run      *)
(* either every panel stays mounted and a change of tab changes nothing    *)
(* but the tab shown, or only the selected panel is mounted and a change   *)
(* of tab unmounts the component of the tab left, whose state is lost, and *)
(* mounts a fresh one; a continuation of an unmounted component still does *)
(* its part outside the component (the lists of App, the microphone, the   *)
(* AI calls) but sets no component state.                                  *)
(*                                                                         *)
(* Spec is initializeApp and the recorder while the Record tab stays       *)
(* selected.  PageSpec starts where the content is shown and one capture   *)
(* is ready to save, and has every step of the page: the changes of tab,   *)
(* the recorder, the Dictionary component (src/unnamed/part_001) and the   *)
(* History component (src/unnamed/part_000), with smaller input sets and   *)
(* one bound on the calls explored.                                        *)
(***************************************************************************)
EXTENDS Integers, Sequences, FiniteSets, Bags, TLC

\* ---------------------------------------------------------------- bounds
\* Number of microphone acquisitions (granted or in flight) explored.
MaxStarts == 2
\* Number of notes created or being created that are explored.
MaxCreates == 1

\* Whitespace characters, which String.prototype.trim removes at both ends.
Whitespace == {" "}

\* The strings the collaborators and the user produce, as character sequences:
\* the empty string, a string of whitespace only, and a string with a letter.
Texts == {<<>>, <<" ">>, <<"a">>}
\* The JavaScript empty string ''.
Empty == <<>>

\* "no value": user === null, mediaRecorder.current === null
NULL == "null"
\* The user me() returns, by its id.
UserU == "u1"

\* ------------------------------------------------------- pure functions
\* String.prototype.trim: drop leading and trailing whitespace.
RECURSIVE TrimStart(_)
TrimStart(s) ==
    IF s = <<>> THEN s
    ELSE IF Head(s) \in Whitespace THEN TrimStart(Tail(s)) ELSE s

RECURSIVE TrimEnd(_)
TrimEnd(s) ==
    IF s = <<>> THEN s
    ELSE IF s[Len(s)] \in Whitespace THEN TrimEnd(SubSeq(s, 1, Len(s) - 1)) ELSE s

Trim(s) == TrimEnd(TrimStart(s))

\* String.prototype.toLowerCase, character by character.
LowerChar(c) == CASE c = "A" -> "a" [] c = "B" -> "b" [] OTHER -> c

RECURSIVE ToLowerCase(_)
ToLowerCase(s) ==
    IF s = <<>> THEN s ELSE <<LowerChar(Head(s))>> \o ToLowerCase(Tail(s))

\* Alphabetical position of a character, case ignored (whitespace before letters).
Rank(c) == CASE LowerChar(c) = " " -> 0 [] LowerChar(c) = "a" -> 1
             [] LowerChar(c) = "b" -> 2 [] OTHER -> 3

\* Lexicographic comparison of two sequences of numbers: -1, 0 or 1.
RECURSIVE Lex(_, _)
Lex(a, b) ==
    IF a = <<>> /\ b = <<>> THEN 0
    ELSE IF a = <<>> THEN -1
    ELSE IF b = <<>> THEN 1
    ELSE IF Head(a) < Head(b) THEN -1
    ELSE IF Head(a) > Head(b) THEN 1
    ELSE Lex(Tail(a), Tail(b))

\* 0 for a lower-case character, 1 for an upper-case one.
CaseKey(c) == IF LowerChar(c) = c THEN 0 ELSE 1

\* String.prototype.localeCompare: by letters first, and between words with the
\* same letters the lower-case form first.
LocaleCompare(a, b) ==
    LET byLetter == Lex([i \in 1..Len(a) |-> Rank(a[i])], [i \in 1..Len(b) |-> Rank(b[i])])
        byCase == Lex([i \in 1..Len(a) |-> CaseKey(a[i])], [i \in 1..Len(b) |-> CaseKey(b[i])])
    IN IF byLetter # 0 THEN byLetter ELSE byCase

\* JavaScript truthiness of a string: !text is true exactly for ''.
Falsy(text) == text = Empty

\* ----------------------------------------------------------------- state
VARIABLES
    \* App.tsx useState
    user, notes, dictionary, isLoading,
    \* position of initializeApp: "me", "loadNotes", "loadDictionary", "done"
    initPc,
    \* id the store gives the next created note
    nextNoteId,
    \* VoiceRecorder.tsx useState
    isRecording, isTranscribing, isProcessing, originalText, correctedText,
    \* VoiceRecorder.tsx useRef: the recorder mediaRecorder.current refers to (0: null)
    mediaRecorder,
    \* microphone: recorders in state "recording", streams whose tracks are live,
    \* number of streams acquired so far
    activeRecorders, liveStreams, streamsAcquired,
    \* calls in flight
    pendingStarts, pendingOnstop, pendingTranscribes, pendingCorrections, pendingSaves,
    \* FileReader reads of a recorded blob in flight (transcribeAudio before its call)
    pendingReads,
    \* history: the text the last transcription returned for the texts now shown
    \* (empty once a save has cleared them)
    transcript,
    \* history: the last step taken
    event,
    \* Dictionary component useState (src/unnamed/part_001)
    newWord, correctSpelling, isAdding,
    \* dictionary_entries calls in flight, and the id the store gives the next entry
    pendingEntryCreates, pendingEntryDeletes, nextEntryId,
    \* History component useState (src/unnamed/part_000): no note, or the one selected
    selectedNote,
    \* voice_notes.delete calls in flight, each with the render its handler closed over
    pendingNoteDeletes,
    \* number of dictionary_entries.create and delete calls issued so far
    pageCalls,
    \* the selected tab: "record", "dictionary" or "history"
    activeTab,
    \* whether the Tabs components keep the panels of the other tabs mounted
    panelsKeptMounted,
    \* calls in flight whose component was unmounted since: create calls of notes,
    \* create calls of entries, delete calls of notes (by id)
    orphanSaves, orphanEntryCreates, orphanNoteDeletes,
    \* continuations of an unmounted VoiceRecorder in flight, by kind: getUserMedia
    \* calls, stop events, reads, transcription calls, correction calls
    orphanStarts, orphanOnstop, orphanReads, orphanTranscribes, orphanCorrections

appVars == <<user, notes, dictionary, isLoading, initPc, nextNoteId>>
textVars == <<originalText, correctedText>>
flagVars == <<isRecording, isTranscribing, isProcessing>>
micVars == <<mediaRecorder, activeRecorders, liveStreams, streamsAcquired, pendingStarts>>
aiVars == <<pendingOnstop, pendingReads, pendingTranscribes, pendingCorrections>>
saveVars == <<pendingSaves>>
dictVars == <<newWord, correctSpelling, isAdding, pendingEntryCreates,
              pendingEntryDeletes, nextEntryId>>
historyVars == <<selectedNote, pendingNoteDeletes>>
\* The continuations of an unmounted VoiceRecorder.
orphanRecorder == <<orphanStarts, orphanOnstop, orphanReads, orphanTranscribes,
                    orphanCorrections>>
tabVars == <<activeTab, panelsKeptMounted, orphanSaves, orphanEntryCreates,
            orphanNoteDeletes, orphanRecorder>>
\* The tab shown and the mounting of the others.
tabMode == <<activeTab, panelsKeptMounted>>
pageVars == <<dictVars, historyVars, pageCalls, tabVars>>
vars == <<appVars, textVars, flagVars, micVars, aiVars, saveVars, transcript, event,
          pageVars>>

\* The last step, as far as the properties below observe it: the handler branch
\* taken (op), the toast it showed, and the text the collaborator answered with.
\* Steps the properties do not tell apart are recorded as Quiet.
Event(op, toast, res) == [op |-> op, toast |-> toast, res |-> res]
Quiet == Event("other", "", <<>>)

\* What voice_notes.list can return for the user (newest first): no note, or one
\* note saved earlier.
StoredNote == [id |-> 0, originalText |-> <<"a">>, correctedText |-> <<"a">>]
StoredNoteLists == {<<>>, <<StoredNote>>}
\* What dictionary_entries.list can return for the user (ascending by word).
StoredDictionaries == {<<>>}

\* The state after construction.  No step of Spec changes the tab, so there the
\* mounting of the other panels plays no part.
Init ==
    /\ user = NULL
    /\ notes = <<>>
    /\ dictionary = <<>>
    /\ isLoading = TRUE
    /\ initPc = "me"
    /\ nextNoteId = 1
    /\ isRecording = FALSE
    /\ isTranscribing = FALSE
    /\ isProcessing = FALSE
    /\ originalText = Empty
    /\ correctedText = Empty
    /\ mediaRecorder = 0
    /\ activeRecorders = {}
    /\ liveStreams = {}
    /\ streamsAcquired = 0
    /\ pendingStarts = 0
    /\ pendingOnstop = 0
    /\ pendingReads = 0
    /\ pendingTranscribes = 0
    /\ pendingCorrections = EmptyBag
    /\ pendingSaves = EmptyBag
    /\ transcript = Empty
    /\ event = Quiet
    /\ newWord = Empty
    /\ correctSpelling = Empty
    /\ isAdding = FALSE
    /\ pendingEntryCreates = <<>>
    /\ pendingEntryDeletes = EmptyBag
    /\ nextEntryId = 1
    /\ selectedNote = <<>>
    /\ pendingNoteDeletes = EmptyBag
    /\ pageCalls = 0
    /\ activeTab = "record"
    /\ panelsKeptMounted = FALSE
    /\ orphanSaves = EmptyBag
    /\ orphanEntryCreates = EmptyBag
    /\ orphanNoteDeletes = EmptyBag
    /\ orphanStarts = 0
    /\ orphanOnstop = 0
    /\ orphanReads = 0
    /\ orphanTranscribes = 0
    /\ orphanCorrections = 0

\* ------------------------------------------------------- App: initializeApp
recorderVars == <<textVars, flagVars, micVars, aiVars, saveVars, transcript>>

\* blink.auth.me() resolves: setUser, then loadNotes issues voice_notes.list.
MeResolves ==
    /\ initPc = "me"
    /\ user' = UserU
    /\ initPc' = "loadNotes"
    /\ event' = Quiet
    /\ UNCHANGED <<notes, dictionary, isLoading, nextNoteId, recorderVars>>
    /\ UNCHANGED pageVars

\* Mutant of MeRejects: no finally block, isLoading is left as it is.
MeRejectsKeepsLoading ==
    /\ initPc = "me"
    /\ initPc' = "done"
    /\ event' = Quiet
    /\ UNCHANGED <<user, notes, dictionary, isLoading, nextNoteId, recorderVars>>
    /\ UNCHANGED pageVars

\* blink.auth.me() rejects: catch logs, finally runs setIsLoading(false).
MeRejects ==
    /\ initPc = "me"
    /\ isLoading' = FALSE
    /\ initPc' = "done"
    /\ event' = Quiet
    /\ UNCHANGED <<user, notes, dictionary, nextNoteId, recorderVars>>
    /\ UNCHANGED pageVars

\* voice_notes.list completes (setNotes or the logged error of loadNotes), then
\* loadDictionary issues dictionary_entries.list.
LoadNotesResolves(list) ==
    /\ initPc = "loadNotes"
    /\ notes' = list
    /\ initPc' = "loadDictionary"
    /\ event' = Quiet
    /\ UNCHANGED <<user, dictionary, isLoading, nextNoteId, recorderVars>>
    /\ UNCHANGED pageVars

LoadNotesRejects ==
    /\ initPc = "loadNotes"
    /\ initPc' = "loadDictionary"
    /\ event' = Quiet
    /\ UNCHANGED <<user, notes, dictionary, isLoading, nextNoteId, recorderVars>>
    /\ UNCHANGED pageVars

\* dictionary_entries.list completes, then the finally of initializeApp runs.
LoadDictionaryResolves(list) ==
    /\ initPc = "loadDictionary"
    /\ dictionary' = list
    /\ isLoading' = FALSE
    /\ initPc' = "done"
    /\ event' = Quiet
    /\ UNCHANGED <<user, notes, nextNoteId, recorderVars>>
    /\ UNCHANGED pageVars

LoadDictionaryRejects ==
    /\ initPc = "loadDictionary"
    /\ isLoading' = FALSE
    /\ initPc' = "done"
    /\ event' = Quiet
    /\ UNCHANGED <<user, notes, dictionary, nextNoteId, recorderVars>>
    /\ UNCHANGED pageVars

\* The tabs (and with them VoiceRecorder) are rendered only past the isLoading branch.
ContentShown == ~isLoading

\* The panel of a tab is rendered while that tab is the selected one.
RecordShown == ContentShown /\ activeTab = "record"
DictionaryShown == ContentShown /\ activeTab = "dictionary"
HistoryShown == ContentShown /\ activeTab = "history"

\* --------------------------------------------- VoiceRecorder: microphone
\* The record button: disabled={isTranscribing || isProcessing}.
RecordButtonEnabled == RecordShown /\ ~(isTranscribing \/ isProcessing)

\* Click on the record button while it shows the microphone (isRecording false):
\* startRecording runs to its await of getUserMedia.
StartRecording ==
    /\ RecordButtonEnabled
    /\ ~isRecording
    /\ streamsAcquired + pendingStarts < MaxStarts
    /\ pendingStarts' = pendingStarts + 1
    /\ event' = Quiet
    /\ UNCHANGED <<appVars, textVars, flagVars, aiVars, saveVars,
                   mediaRecorder, activeRecorders, liveStreams, streamsAcquired>>
    /\ UNCHANGED transcript
    /\ UNCHANGED pageVars

\* getUserMedia resolves with a new stream: the rest of startRecording's try block.
\* The new recorder takes the stream's number; the previous value of the ref is lost.
GetUserMediaResolves ==
    /\ pendingStarts > 0
    /\ pendingStarts' = pendingStarts - 1
    /\ streamsAcquired' = streamsAcquired + 1
    /\ liveStreams' = liveStreams \cup {streamsAcquired'}
    /\ mediaRecorder' = streamsAcquired'
    /\ activeRecorders' = activeRecorders \cup {streamsAcquired'}
    /\ isRecording' = TRUE
    /\ event' = Quiet
    /\ UNCHANGED <<appVars, textVars, isTranscribing, isProcessing, aiVars, saveVars>>
    /\ UNCHANGED transcript
    /\ UNCHANGED pageVars

\* getUserMedia rejects (permission denied, no device): the catch block.
GetUserMediaRejects ==
    /\ pendingStarts > 0
    /\ pendingStarts' = pendingStarts - 1
    /\ event' = Quiet
    /\ UNCHANGED <<appVars, textVars, flagVars, aiVars, saveVars,
                   mediaRecorder, activeRecorders, liveStreams, streamsAcquired>>
    /\ UNCHANGED transcript
    /\ UNCHANGED pageVars

\* Mutant of StopGuard: the isRecording test left out.
StopGuardNoFlag == mediaRecorder # 0

\* The guard of stopRecording.
StopGuard == mediaRecorder # 0 /\ isRecording

\* A stop request: stopRecording.  Past its guard it stops the recorder of the ref
\* (which queues that recorder's stop event) and the tracks of its stream; a
\* request that does not pass the guard does nothing.
StopRecording ==
    /\ RecordButtonEnabled
    /\ IF StopGuard
       THEN /\ activeRecorders' = activeRecorders \ {mediaRecorder}
            /\ liveStreams' = liveStreams \ {mediaRecorder}
            /\ pendingOnstop' = pendingOnstop + 1
            /\ isRecording' = FALSE
            /\ event' = Event("stop", "Recording stopped", Empty)
       ELSE /\ event' = Event("stopIgnored", "", Empty)
            /\ UNCHANGED <<activeRecorders, liveStreams, pendingOnstop, isRecording>>
    /\ UNCHANGED <<appVars, textVars, isTranscribing, isProcessing, saveVars,
                   mediaRecorder, streamsAcquired, pendingStarts,
                   pendingReads, pendingTranscribes, pendingCorrections>>
    /\ UNCHANGED transcript
    /\ UNCHANGED pageVars

\* ------------------------------------- VoiceRecorder: transcribe, correct
\* The recorder's stop event: onstop builds the blob and calls transcribeAudio, which
\* sets isTranscribing and starts the FileReader read of the blob, whose load or
\* error event it awaits.
OnStop ==
    /\ pendingOnstop > 0
    /\ pendingOnstop' = pendingOnstop - 1
    /\ isTranscribing' = TRUE
    /\ pendingReads' = pendingReads + 1
    /\ event' = Quiet
    /\ UNCHANGED <<appVars, textVars, isRecording, isProcessing, micVars, saveVars,
                   pendingTranscribes, pendingCorrections>>
    /\ UNCHANGED transcript
    /\ UNCHANGED pageVars

\* The load event of a read: reader.onload resolves with the base64 data and
\* transcribeAudio issues blink.ai.transcribeAudio.
ReadLoads ==
    /\ pendingReads > 0
    /\ pendingReads' = pendingReads - 1
    /\ pendingTranscribes' = pendingTranscribes + 1
    /\ event' = Quiet
    /\ UNCHANGED <<appVars, textVars, flagVars, micVars, saveVars, pendingOnstop,
                   pendingCorrections>>
    /\ UNCHANGED transcript
    /\ UNCHANGED pageVars

\* The error event of a read (reader.onerror = reject): catch and finally of
\* transcribeAudio, with no call of blink.ai.transcribeAudio.
ReadFails ==
    /\ pendingReads > 0
    /\ pendingReads' = pendingReads - 1
    /\ isTranscribing' = FALSE
    /\ event' = Quiet
    /\ UNCHANGED <<appVars, textVars, isRecording, isProcessing, micVars, saveVars,
                   pendingOnstop, pendingTranscribes, pendingCorrections>>
    /\ UNCHANGED transcript
    /\ UNCHANGED pageVars

\* A correction call in flight: the text correctText was called with, and whether
\* transcribeAudio awaits it ("pipeline") or reprocessText ("reprocess").
Correction(text, from) == [text |-> text, from |-> from]

\* blink.ai.transcribeAudio resolves with text: setOriginalText(text), then
\* correctText(text) runs to its await of blink.ai.generateText.
TranscribeResolves(text) ==
    /\ pendingTranscribes > 0
    /\ pendingTranscribes' = pendingTranscribes - 1
    /\ originalText' = text
    /\ isProcessing' = TRUE
    /\ pendingCorrections' = pendingCorrections (+) SetToBag({Correction(text, "pipeline")})
    /\ event' = Quiet
    /\ UNCHANGED <<appVars, correctedText, isRecording, isTranscribing, micVars, saveVars,
                   pendingOnstop, pendingReads>>
    /\ transcript' = text
    /\ UNCHANGED pageVars

\* blink.ai.transcribeAudio rejects: catch and finally of transcribeAudio.
TranscribeRejects ==
    /\ pendingTranscribes > 0
    /\ pendingTranscribes' = pendingTranscribes - 1
    /\ isTranscribing' = FALSE
    /\ event' = Quiet
    /\ UNCHANGED <<appVars, textVars, isRecording, isProcessing, micVars, saveVars,
                   pendingOnstop, pendingReads, pendingCorrections>>
    /\ UNCHANGED transcript
    /\ UNCHANGED pageVars

\* What correctText leaves in correctedText: the trimmed answer, or on failure the
\* text it was called with.
CorrectedOnSuccess(answer) == Trim(answer)
CorrectedOnFailure(text) == text

\* After correctText returns into transcribeAudio, its finally clears isTranscribing.
TranscribingAfter(c) == IF c.from = "pipeline" THEN FALSE ELSE isTranscribing

\* blink.ai.generateText resolves with answer: try and finally of correctText.
CorrectResolves(c, answer) ==
    /\ BagIn(c, pendingCorrections)
    /\ pendingCorrections' = pendingCorrections (-) SetToBag({c})
    /\ correctedText' = CorrectedOnSuccess(answer)
    /\ isProcessing' = FALSE
    /\ isTranscribing' = TranscribingAfter(c)
    /\ event' = Event("correctOk", "", answer)
    /\ UNCHANGED <<appVars, originalText, isRecording, micVars, saveVars,
                   pendingOnstop, pendingReads, pendingTranscribes>>
    /\ UNCHANGED transcript
    /\ UNCHANGED pageVars

\* blink.ai.generateText rejects: catch and finally of correctText.
CorrectRejects(c) ==
    /\ BagIn(c, pendingCorrections)
    /\ pendingCorrections' = pendingCorrections (-) SetToBag({c})
    /\ correctedText' = CorrectedOnFailure(c.text)
    /\ isProcessing' = FALSE
    /\ isTranscribing' = TranscribingAfter(c)
    /\ event' = Event("correctFail", "Failed to correct text", Empty)
    /\ UNCHANGED <<appVars, originalText, isRecording, micVars, saveVars,
                   pendingOnstop, pendingReads, pendingTranscribes>>
    /\ UNCHANGED transcript
    /\ UNCHANGED pageVars

\* The two text areas: each is rendered while its text is non-empty.
EditOriginal(text) ==
    /\ RecordShown
    /\ ~Falsy(originalText)
    /\ text # originalText
    /\ originalText' = text
    /\ event' = Quiet
    /\ UNCHANGED <<appVars, correctedText, flagVars, micVars, aiVars, saveVars>>
    /\ UNCHANGED transcript
    /\ UNCHANGED pageVars

EditCorrected(text) ==
    /\ RecordShown
    /\ ~Falsy(correctedText)
    /\ text # correctedText
    /\ correctedText' = text
    /\ event' = Quiet
    /\ UNCHANGED <<appVars, originalText, flagVars, micVars, aiVars, saveVars>>
    /\ UNCHANGED transcript
    /\ UNCHANGED pageVars

\* The re-correct button: inside the corrected-text card, disabled={isProcessing}.
ReprocessButtonEnabled == RecordShown /\ ~Falsy(correctedText) /\ ~isProcessing

\* Mutant of ReprocessInput: the corrected text is corrected again.
ReprocessInputCorrected == correctedText

\* The text reprocessText hands to correctText.
ReprocessInput == originalText

\* Click on the re-correct button: reprocessText.
ReprocessText ==
    /\ ReprocessButtonEnabled
    /\ IF Falsy(originalText)
       THEN /\ event' = Quiet
            /\ UNCHANGED <<isProcessing, pendingCorrections>>
       ELSE /\ isProcessing' = TRUE
            /\ pendingCorrections' =
                   pendingCorrections (+) SetToBag({Correction(ReprocessInput, "reprocess")})
            /\ event' = Event("reprocess", "", Empty)
    /\ UNCHANGED <<appVars, textVars, isRecording, isTranscribing, micVars, saveVars,
                   pendingOnstop, pendingReads, pendingTranscribes>>
    /\ UNCHANGED transcript
    /\ UNCHANGED pageVars


\* ------------------------------------------------ VoiceRecorder: saveNote
\* Mutant of SaveInvalid: && in place of ||.
SaveInvalidBoth(original, corrected) == Falsy(original) /\ Falsy(corrected)

\* The validation of saveNote: !originalText || !correctedText.
SaveInvalid(original, corrected) == Falsy(original) \/ Falsy(corrected)

\* A create call in flight: the texts addNote was called with.
Save(original, corrected) == [originalText |-> original, correctedText |-> corrected]

\* The note voice_notes.create returns: the store assigns the id.
NewNote(s) == [id |-> nextNoteId, originalText |-> s.originalText,
               correctedText |-> s.correctedText]

\* Mutant of Prepend: the new note is put at the end.
PrependAtEnd(note, prev) == Append(prev, note)

\* setNotes(prev => [newNote, ...prev])
Prepend(note, prev) == <<note>> \o prev

\* A save request (at most limit create calls are explored): saveNote up to its await of onSaveNote (addNote); a request
\* with an empty text returns after the 'No text to save' toast.  With no user
\* (me() failed) addNote throws on user.id inside its try, logs, and returns, so
\* saveNote goes on as after a successful save without a create call.
SaveRequest(limit) ==
    /\ RecordShown
    /\ IF SaveInvalid(originalText, correctedText)
       THEN /\ event' = Event("saveRejected", "No text to save", Empty)
            /\ UNCHANGED <<textVars, pendingSaves, transcript>>
       ELSE IF user = NULL
       THEN /\ originalText' = Empty
            /\ correctedText' = Empty
            /\ transcript' = Empty
            /\ event' = Quiet
            /\ UNCHANGED <<pendingSaves>>
       ELSE /\ (nextNoteId - 1) + BagCardinality(pendingSaves) < limit
            /\ pendingSaves' = pendingSaves (+) SetToBag({Save(originalText, correctedText)})
            /\ event' = Quiet
            /\ UNCHANGED <<textVars, transcript>>
    /\ UNCHANGED <<appVars, flagVars, micVars, aiVars>>
    /\ UNCHANGED pageVars

\* saveNote, with the create calls explored up to MaxCreates for the first
\* capture, and one fewer for every further microphone acquisition.
SaveNote == SaveRequest(MaxCreates + 1 - (streamsAcquired + pendingStarts))

\* voice_notes.create resolves: addNote prepends the note and returns; saveNote
\* reports success and clears the texts.
CreateResolves(s) ==
    /\ BagIn(s, pendingSaves)
    /\ pendingSaves' = pendingSaves (-) SetToBag({s})
    /\ notes' = Prepend(NewNote(s), notes)
    /\ nextNoteId' = nextNoteId + 1
    /\ originalText' = Empty
    /\ correctedText' = Empty
    /\ event' = Quiet
    /\ transcript' = Empty
    /\ UNCHANGED <<user, dictionary, isLoading, initPc, flagVars, micVars, aiVars>>
    /\ UNCHANGED pageVars

\* voice_notes.create rejects: the catch of addNote logs the error and addNote
\* returns normally, so saveNote goes on as after a successful save.
CreateRejects(s) ==
    /\ BagIn(s, pendingSaves)
    /\ pendingSaves' = pendingSaves (-) SetToBag({s})
    /\ originalText' = Empty
    /\ correctedText' = Empty
    /\ event' = Event("createFail", "Note saved!", Empty)
    /\ UNCHANGED <<appVars, flagVars, micVars, aiVars>>
    /\ transcript' = Empty
    /\ UNCHANGED pageVars

\* ------------------------------------------------------------ the program
Next ==
    \/ StartRecording
    \/ GetUserMediaResolves
    \/ GetUserMediaRejects
    \/ StopRecording
    \/ OnStop
    \/ ReadLoads
    \/ ReadFails
    \/ \E text \in Texts : TranscribeResolves(text)
    \/ TranscribeRejects
    \/ \E c \in BagToSet(pendingCorrections), answer \in Texts : CorrectResolves(c, answer)
    \/ \E c \in BagToSet(pendingCorrections) : CorrectRejects(c)
    \/ \E text \in Texts : EditOriginal(text)
    \/ \E text \in Texts : EditCorrected(text)
    \/ ReprocessText
    \/ SaveNote
    \/ \E s \in BagToSet(pendingSaves) : CreateResolves(s)
    \/ \E s \in BagToSet(pendingSaves) : CreateRejects(s)
    \/ MeResolves
    \/ MeRejects
    \/ \E list \in StoredNoteLists : LoadNotesResolves(list)
    \/ LoadNotesRejects
    \/ \E list \in StoredDictionaries : LoadDictionaryResolves(list)
    \/ LoadDictionaryRejects

Spec == Init /\ [][Next]_vars

\* ------------------------------------------- Dictionary: add and delete
\* Bound of the page specification: calls explored, which are the entry creates
\* and the delete calls issued (for notes and entries together), the notes created
\* or being created, and the microphone acquisitions after the first, granted or
\* in flight.
MaxCalls == 2
StoreCalls ==
    pageCalls + (nextNoteId - 1) + BagCardinality(pendingSaves) + BagCardinality(orphanSaves)
RecordingsAfterFirst == (streamsAcquired - 1) + pendingStarts + orphanStarts
CallsExplored == StoreCalls + RecordingsAfterFirst

\* The texts the AI answers with and the user edits to in the page specification.
PageTexts == {<<>>, <<"a">>}

\* What the user types into the word field and into the spelling field.
WordInputs == {<<"A", " ">>}
SpellingInputs == {<<"x">>}

\* Two entries the store holds from earlier sessions (their ids are below the ids
\* of this session), and what dictionary_entries.list (orderBy word asc) can have
\* loaded: nothing, or both in ascending order.
EarlierEntry == [id |-> -1, word |-> <<"a">>, correct_spelling |-> <<"x">>]
StoredEntry == [id |-> 0, word |-> <<"b">>, correct_spelling |-> <<"x">>]
StoredEntryLists == {<<>>, <<EarlierEntry, StoredEntry>>}

\* onChange of the two inputs.
TypeWord(text) ==
    /\ DictionaryShown
    /\ newWord' = text
    /\ event' = Quiet
    /\ UNCHANGED <<correctSpelling, isAdding, pendingEntryCreates, pendingEntryDeletes,
                   nextEntryId, historyVars, pageCalls, appVars, recorderVars>>
    /\ UNCHANGED tabVars

TypeSpelling(text) ==
    /\ DictionaryShown
    /\ correctSpelling' = text
    /\ event' = Quiet
    /\ UNCHANGED <<newWord, isAdding, pendingEntryCreates, pendingEntryDeletes,
                   nextEntryId, historyVars, pageCalls, appVars, recorderVars>>
    /\ UNCHANGED tabVars

\* The validation of handleAddEntry: !newWord.trim() || !correctSpelling.trim().
AddInvalid(word, spelling) == Falsy(Trim(word)) \/ Falsy(Trim(spelling))

\* The create call of addDictionaryEntry for the arguments (word, spelling): the
\* fields sent to the store, and the word argument itself.
EntryRequest(word, spelling) ==
    [word |-> ToLowerCase(word), correct_spelling |-> spelling, input |-> word]

\* The entry dictionary_entries.create returns: the fields sent, with the id the
\* store assigns.
NewEntry(r) == [id |-> nextEntryId, word |-> r.word, correct_spelling |-> r.correct_spelling]

\* Array.prototype.sort((a, b) => a.word.localeCompare(b.word)): a stable sort.
RECURSIVE InsertByWord(_, _)
InsertByWord(entry, sorted) ==
    IF sorted = <<>> THEN <<entry>>
    ELSE IF LocaleCompare(entry.word, Head(sorted).word) < 0 THEN <<entry>> \o sorted
    ELSE <<Head(sorted)>> \o InsertByWord(entry, Tail(sorted))

RECURSIVE SortByWord(_)
SortByWord(list) ==
    IF list = <<>> THEN list
    ELSE InsertByWord(list[Len(list)], SortByWord(SubSeq(list, 1, Len(list) - 1)))

\* Mutant of WithNewEntry: the new entry is appended and the list is not sorted.
WithNewEntryUnsorted(prev, entry) == Append(prev, entry)

\* setDictionary(prev => [...prev, newEntry].sort(...))
WithNewEntry(prev, entry) == SortByWord(Append(prev, entry))

\* prev.filter(x => x.id !== id), for entries and for notes.
WithoutId(prev, id) == SelectSeq(prev, LAMBDA x : x.id # id)

\* A click on Add Entry (disabled while isAdding): handleAddEntry up to its await
\* of onAddEntry.  With no user, addDictionaryEntry throws on user.id inside its
\* try, logs, and returns, so handleAddEntry clears the fields without a call.
HandleAddEntry ==
    /\ DictionaryShown
    /\ ~isAdding
    /\ IF AddInvalid(newWord, correctSpelling)
       THEN UNCHANGED <<newWord, correctSpelling, isAdding, pendingEntryCreates, pageCalls>>
       ELSE IF user = NULL
       THEN /\ newWord' = Empty
            /\ correctSpelling' = Empty
            /\ UNCHANGED <<isAdding, pendingEntryCreates, pageCalls>>
       ELSE /\ CallsExplored < MaxCalls
            /\ isAdding' = TRUE
            /\ pendingEntryCreates' = <<EntryRequest(Trim(newWord), Trim(correctSpelling))>>
            /\ pageCalls' = pageCalls + 1
            /\ UNCHANGED <<newWord, correctSpelling>>
    /\ event' = Quiet
    /\ UNCHANGED <<pendingEntryDeletes, nextEntryId, historyVars, appVars, recorderVars>>
    /\ UNCHANGED tabVars

\* dictionary_entries.create resolves: addDictionaryEntry puts the entry in place,
\* handleAddEntry clears the fields and its finally ends isAdding.
CreateEntryResolves ==
    /\ pendingEntryCreates # <<>>
    /\ dictionary' = WithNewEntry(dictionary, NewEntry(Head(pendingEntryCreates)))
    /\ nextEntryId' = nextEntryId + 1
    /\ pendingEntryCreates' = <<>>
    /\ newWord' = Empty
    /\ correctSpelling' = Empty
    /\ isAdding' = FALSE
    /\ event' = Quiet
    /\ UNCHANGED <<user, notes, isLoading, initPc, nextNoteId, pendingEntryDeletes,
                   historyVars, pageCalls, recorderVars>>
    /\ UNCHANGED tabVars

\* Mutant of CreateEntryRejects: the entry is shown although the store refused it.
CreateEntryRejectsOptimistic ==
    /\ pendingEntryCreates # <<>>
    /\ dictionary' = WithNewEntry(dictionary, NewEntry(Head(pendingEntryCreates)))
    /\ pendingEntryCreates' = <<>>
    /\ newWord' = Empty
    /\ correctSpelling' = Empty
    /\ isAdding' = FALSE
    /\ event' = Quiet
    /\ UNCHANGED <<user, notes, isLoading, initPc, nextNoteId, nextEntryId,
                   pendingEntryDeletes, historyVars, pageCalls, recorderVars>>
    /\ UNCHANGED tabVars

\* dictionary_entries.create rejects: the catch of addDictionaryEntry logs the
\* error and returns, so handleAddEntry goes on as after a successful add.
CreateEntryRejects ==
    /\ pendingEntryCreates # <<>>
    /\ pendingEntryCreates' = <<>>
    /\ newWord' = Empty
    /\ correctSpelling' = Empty
    /\ isAdding' = FALSE
    /\ event' = Quiet
    /\ UNCHANGED <<appVars, nextEntryId, pendingEntryDeletes, historyVars, pageCalls,
                   recorderVars>>
    /\ UNCHANGED tabVars

\* A click on the bin of the i-th entry: handleDeleteEntry up to its await.
HandleDeleteEntry(i) ==
    /\ DictionaryShown
    /\ i \in 1..Len(dictionary)
    /\ CallsExplored < MaxCalls
    /\ pendingEntryDeletes' = pendingEntryDeletes (+) SetToBag({dictionary[i].id})
    /\ pageCalls' = pageCalls + 1
    /\ event' = Quiet
    /\ UNCHANGED <<newWord, correctSpelling, isAdding, pendingEntryCreates, nextEntryId,
                   historyVars, appVars, recorderVars>>
    /\ UNCHANGED tabVars

\* dictionary_entries.delete resolves: deleteDictionaryEntry filters the list.
DeleteEntryResolves(id) ==
    /\ BagIn(id, pendingEntryDeletes)
    /\ pendingEntryDeletes' = pendingEntryDeletes (-) SetToBag({id})
    /\ dictionary' = WithoutId(dictionary, id)
    /\ event' = Quiet
    /\ UNCHANGED <<user, notes, isLoading, initPc, nextNoteId, newWord, correctSpelling,
                   isAdding, pendingEntryCreates, nextEntryId, historyVars, pageCalls,
                   recorderVars>>
    /\ UNCHANGED tabVars

\* dictionary_entries.delete rejects: the catch of deleteDictionaryEntry logs.
DeleteEntryRejects(id) ==
    /\ BagIn(id, pendingEntryDeletes)
    /\ pendingEntryDeletes' = pendingEntryDeletes (-) SetToBag({id})
    /\ event' = Quiet
    /\ UNCHANGED <<appVars, newWord, correctSpelling, isAdding, pendingEntryCreates,
                   nextEntryId, historyVars, pageCalls, recorderVars>>
    /\ UNCHANGED tabVars

\* ------------------------------------------------ History: select and delete
\* selectedNote?.id === id, for a selection that is <<>> (null) or <<note>>.
SelectionIs(selection, id) == selection # <<>> /\ selection[1].id = id

\* A delete call in flight: the id, and the selectedNote of the render whose
\* handleDeleteNote was clicked (the value its continuation compares with).
NoteDelete(id, selection) == [id |-> id, selected |-> selection]

\* A click on the i-th row: setSelectedNote(note).
SelectNote(i) ==
    /\ HistoryShown
    /\ i \in 1..Len(notes)
    /\ selectedNote' = <<notes[i]>>
    /\ event' = Quiet
    /\ UNCHANGED <<pendingNoteDeletes, pageCalls, dictVars, appVars, recorderVars>>
    /\ UNCHANGED tabVars

\* A click on the bin of the i-th row: handleDeleteNote up to its await.
HandleDeleteNote(i) ==
    /\ HistoryShown
    /\ i \in 1..Len(notes)
    /\ CallsExplored < MaxCalls
    /\ pendingNoteDeletes' =
           pendingNoteDeletes (+) SetToBag({NoteDelete(notes[i].id, selectedNote)})
    /\ pageCalls' = pageCalls + 1
    /\ event' = Quiet
    /\ UNCHANGED <<selectedNote, dictVars, appVars, recorderVars>>
    /\ UNCHANGED tabVars

\* The rest of handleDeleteNote after onDeleteNote returned: the selection is
\* cleared when the selectedNote the handler closed over is the deleted note.
SelectionAfterDelete(d) == IF SelectionIs(d.selected, d.id) THEN <<>> ELSE selectedNote

\* voice_notes.delete resolves: deleteNote filters the list, then handleDeleteNote
\* goes on.
DeleteNoteResolves(d) ==
    /\ BagIn(d, pendingNoteDeletes)
    /\ pendingNoteDeletes' = pendingNoteDeletes (-) SetToBag({d})
    /\ notes' = WithoutId(notes, d.id)
    /\ selectedNote' = SelectionAfterDelete(d)
    /\ event' = Quiet
    /\ UNCHANGED <<user, dictionary, isLoading, initPc, nextNoteId, dictVars, pageCalls,
                   recorderVars>>
    /\ UNCHANGED tabVars

\* voice_notes.delete rejects: the catch of deleteNote logs the error and returns,
\* so handleDeleteNote goes on as after a successful delete.
DeleteNoteRejects(d) ==
    /\ BagIn(d, pendingNoteDeletes)
    /\ pendingNoteDeletes' = pendingNoteDeletes (-) SetToBag({d})
    /\ selectedNote' = SelectionAfterDelete(d)
    /\ event' = Quiet
    /\ UNCHANGED <<appVars, dictVars, pageCalls, recorderVars>>
    /\ UNCHANGED tabVars

\* ------------------------------------------------------------ the tabs
TabNames == {"record", "dictionary", "history"}

\* The calls in flight of an unmounted component, as bags: the entry create calls,
\* and the ids of the note delete calls.
SeqToBag(seq) == [x \in {seq[i] : i \in 1..Len(seq)} |->
                     Cardinality({i \in 1..Len(seq) : seq[i] = x})]
DeleteIds(deletes) ==
    [id \in {d.id : d \in BagToSet(deletes)} |->
        BagCardinality([d \in {x \in BagToSet(deletes) : x.id = id} |-> deletes[d]])]

\* A click on another tab (the triggers carry no condition).  Where the panels
\* stay mounted, only the tab shown changes.  Where they do not, the panel left is
\* unmounted and its component state is gone (the next mount starts from the
\* useState and useRef initial values), and what it has in flight is left without
\* a component: its store calls, its getUserMedia calls, stop events, reads and
\* AI calls.  A recorder that is recording goes on recording.
SelectTab(tab) ==
    /\ ContentShown
    /\ tab \in TabNames \ {activeTab}
    /\ activeTab' = tab
    /\ IF ~panelsKeptMounted /\ activeTab = "record"
       THEN /\ originalText' = Empty
            /\ correctedText' = Empty
            /\ isRecording' = FALSE
            /\ isTranscribing' = FALSE
            /\ isProcessing' = FALSE
            /\ mediaRecorder' = 0
            /\ transcript' = Empty
            /\ orphanSaves' = orphanSaves (+) pendingSaves
            /\ pendingSaves' = EmptyBag
            /\ orphanStarts' = orphanStarts + pendingStarts
            /\ orphanOnstop' = orphanOnstop + pendingOnstop
            /\ orphanReads' = orphanReads + pendingReads
            /\ orphanTranscribes' = orphanTranscribes + pendingTranscribes
            /\ orphanCorrections' = orphanCorrections + BagCardinality(pendingCorrections)
            /\ pendingStarts' = 0
            /\ pendingOnstop' = 0
            /\ pendingReads' = 0
            /\ pendingTranscribes' = 0
            /\ pendingCorrections' = EmptyBag
       ELSE UNCHANGED <<textVars, flagVars, mediaRecorder, transcript, orphanSaves,
                        pendingSaves, orphanRecorder, pendingStarts, aiVars>>
    /\ IF ~panelsKeptMounted /\ activeTab = "dictionary"
       THEN /\ newWord' = Empty
            /\ correctSpelling' = Empty
            /\ isAdding' = FALSE
            /\ orphanEntryCreates' = orphanEntryCreates (+) SeqToBag(pendingEntryCreates)
            /\ pendingEntryCreates' = <<>>
       ELSE UNCHANGED <<newWord, correctSpelling, isAdding, orphanEntryCreates,
                        pendingEntryCreates>>
    /\ IF ~panelsKeptMounted /\ activeTab = "history"
       THEN /\ selectedNote' = <<>>
            /\ orphanNoteDeletes' = orphanNoteDeletes (+) DeleteIds(pendingNoteDeletes)
            /\ pendingNoteDeletes' = EmptyBag
       ELSE UNCHANGED <<selectedNote, orphanNoteDeletes, pendingNoteDeletes>>
    /\ event' = Quiet
    /\ UNCHANGED <<appVars, activeRecorders, liveStreams, streamsAcquired,
                   pendingEntryDeletes, nextEntryId, pageCalls, panelsKeptMounted>>

\* What an orphaned continuation leaves alone: the lists, every mounted component
\* and the calls of the mounted components.
OrphanStepKeeps ==
    /\ event' = Quiet
    /\ UNCHANGED <<appVars, textVars, flagVars, mediaRecorder, pendingStarts, aiVars,
                   saveVars, transcript, dictVars, historyVars, pageCalls, tabMode,
                   orphanSaves, orphanEntryCreates, orphanNoteDeletes>>

\* getUserMedia resolves for an unmounted VoiceRecorder: startRecording acquires
\* the stream and starts a MediaRecorder, which no component refers to.
OrphanGetUserMediaResolves ==
    /\ orphanStarts > 0
    /\ orphanStarts' = orphanStarts - 1
    /\ UNCHANGED <<orphanOnstop, orphanReads, orphanTranscribes, orphanCorrections>>
    /\ streamsAcquired' = streamsAcquired + 1
    /\ liveStreams' = liveStreams \cup {streamsAcquired'}
    /\ activeRecorders' = activeRecorders \cup {streamsAcquired'}
    /\ OrphanStepKeeps

OrphanGetUserMediaRejects ==
    /\ orphanStarts > 0
    /\ orphanStarts' = orphanStarts - 1
    /\ UNCHANGED <<orphanOnstop, orphanReads, orphanTranscribes, orphanCorrections>>
    /\ UNCHANGED <<activeRecorders, liveStreams, streamsAcquired>>
    /\ OrphanStepKeeps

\* The stop event of a recorder whose component was unmounted: onstop calls
\* transcribeAudio, which starts the read.
OrphanOnStop ==
    /\ orphanOnstop > 0
    /\ orphanOnstop' = orphanOnstop - 1
    /\ orphanReads' = orphanReads + 1
    /\ UNCHANGED <<orphanStarts, orphanTranscribes, orphanCorrections>>
    /\ UNCHANGED <<activeRecorders, liveStreams, streamsAcquired>>
    /\ OrphanStepKeeps

\* The read loads: blink.ai.transcribeAudio is called.
OrphanReadLoads ==
    /\ orphanReads > 0
    /\ orphanReads' = orphanReads - 1
    /\ orphanTranscribes' = orphanTranscribes + 1
    /\ UNCHANGED <<orphanStarts, orphanOnstop, orphanCorrections>>
    /\ UNCHANGED <<activeRecorders, liveStreams, streamsAcquired>>
    /\ OrphanStepKeeps

\* The read fails: catch and finally of transcribeAudio.
OrphanReadFails ==
    /\ orphanReads > 0
    /\ orphanReads' = orphanReads - 1
    /\ UNCHANGED <<orphanStarts, orphanOnstop, orphanTranscribes, orphanCorrections>>
    /\ UNCHANGED <<activeRecorders, liveStreams, streamsAcquired>>
    /\ OrphanStepKeeps

\* blink.ai.transcribeAudio resolves: correctText calls blink.ai.generateText.
OrphanTranscribeResolves ==
    /\ orphanTranscribes > 0
    /\ orphanTranscribes' = orphanTranscribes - 1
    /\ orphanCorrections' = orphanCorrections + 1
    /\ UNCHANGED <<orphanStarts, orphanOnstop, orphanReads>>
    /\ UNCHANGED <<activeRecorders, liveStreams, streamsAcquired>>
    /\ OrphanStepKeeps

\* blink.ai.transcribeAudio rejects: catch and finally of transcribeAudio.
OrphanTranscribeRejects ==
    /\ orphanTranscribes > 0
    /\ orphanTranscribes' = orphanTranscribes - 1
    /\ UNCHANGED <<orphanStarts, orphanOnstop, orphanReads, orphanCorrections>>
    /\ UNCHANGED <<activeRecorders, liveStreams, streamsAcquired>>
    /\ OrphanStepKeeps

\* blink.ai.generateText resolves or rejects: correctText and its caller end.
OrphanCorrectionEnds ==
    /\ orphanCorrections > 0
    /\ orphanCorrections' = orphanCorrections - 1
    /\ UNCHANGED <<orphanStarts, orphanOnstop, orphanReads, orphanTranscribes>>
    /\ UNCHANGED <<activeRecorders, liveStreams, streamsAcquired>>
    /\ OrphanStepKeeps

\* voice_notes.create resolves after VoiceRecorder was unmounted: addNote prepends
\* the note; the state updates of saveNote have no component to act on.
OrphanCreateResolves(s) ==
    /\ BagIn(s, orphanSaves)
    /\ orphanSaves' = orphanSaves (-) SetToBag({s})
    /\ notes' = Prepend(NewNote(s), notes)
    /\ nextNoteId' = nextNoteId + 1
    /\ event' = Quiet
    /\ UNCHANGED <<user, dictionary, isLoading, initPc, recorderVars, dictVars,
                   historyVars, pageCalls, tabMode, orphanRecorder, orphanEntryCreates,
                   orphanNoteDeletes>>

OrphanCreateRejects(s) ==
    /\ BagIn(s, orphanSaves)
    /\ orphanSaves' = orphanSaves (-) SetToBag({s})
    /\ event' = Quiet
    /\ UNCHANGED <<appVars, recorderVars, dictVars, historyVars, pageCalls, tabMode, orphanRecorder,
                   orphanEntryCreates, orphanNoteDeletes>>

\* dictionary_entries.create resolves after Dictionary was unmounted:
\* addDictionaryEntry puts the entry in place.
OrphanEntryCreateResolves(r) ==
    /\ BagIn(r, orphanEntryCreates)
    /\ orphanEntryCreates' = orphanEntryCreates (-) SetToBag({r})
    /\ dictionary' = WithNewEntry(dictionary, NewEntry(r))
    /\ nextEntryId' = nextEntryId + 1
    /\ event' = Quiet
    /\ UNCHANGED <<user, notes, isLoading, initPc, nextNoteId, recorderVars, newWord,
                   correctSpelling, isAdding, pendingEntryCreates, pendingEntryDeletes,
                   historyVars, pageCalls, tabMode, orphanRecorder, orphanSaves, orphanNoteDeletes>>

OrphanEntryCreateRejects(r) ==
    /\ BagIn(r, orphanEntryCreates)
    /\ orphanEntryCreates' = orphanEntryCreates (-) SetToBag({r})
    /\ event' = Quiet
    /\ UNCHANGED <<appVars, recorderVars, dictVars, historyVars, pageCalls, tabMode, orphanRecorder,
                   orphanSaves, orphanNoteDeletes>>

\* voice_notes.delete resolves after History was unmounted: deleteNote filters
\* the list.
OrphanNoteDeleteResolves(id) ==
    /\ BagIn(id, orphanNoteDeletes)
    /\ orphanNoteDeletes' = orphanNoteDeletes (-) SetToBag({id})
    /\ notes' = WithoutId(notes, id)
    /\ event' = Quiet
    /\ UNCHANGED <<user, dictionary, isLoading, initPc, nextNoteId, recorderVars,
                   dictVars, historyVars, pageCalls, tabMode, orphanRecorder, orphanSaves,
                   orphanEntryCreates>>

OrphanNoteDeleteRejects(id) ==
    /\ BagIn(id, orphanNoteDeletes)
    /\ orphanNoteDeletes' = orphanNoteDeletes (-) SetToBag({id})
    /\ event' = Quiet
    /\ UNCHANGED <<appVars, recorderVars, dictVars, historyVars, pageCalls, tabMode, orphanRecorder,
                   orphanSaves, orphanEntryCreates>>

\* --------------------------------------------------- the pages after a capture
\* The program once initializeApp has finished and one recording has been
\* transcribed and corrected (ReadyToSave): me() failed and nothing was loaded,
\* or the user is known, has no note yet (the notes of PageSpec are the ones
\* saved in it) and the dictionary call delivered one of its results.  The Tabs
\* components keep the panels mounted or do not.
ReadyInit ==
    /\ \/ user = NULL /\ notes = <<>> /\ dictionary = <<>>
       \/ user = UserU /\ notes = <<>> /\ dictionary \in StoredEntryLists
    /\ isLoading = FALSE
    /\ initPc = "done"
    /\ nextNoteId = 1
    /\ isRecording = FALSE
    /\ isTranscribing = FALSE
    /\ isProcessing = FALSE
    /\ originalText = <<"a">>
    /\ correctedText = <<"a">>
    /\ mediaRecorder = 1
    /\ activeRecorders = {}
    /\ liveStreams = {}
    /\ streamsAcquired = 1
    /\ pendingStarts = 0
    /\ pendingOnstop = 0
    /\ pendingReads = 0
    /\ pendingTranscribes = 0
    /\ pendingCorrections = EmptyBag
    /\ pendingSaves = EmptyBag
    /\ transcript = <<"a">>
    /\ event = Quiet
    /\ newWord = Empty
    /\ correctSpelling = Empty
    /\ isAdding = FALSE
    /\ pendingEntryCreates = <<>>
    /\ pendingEntryDeletes = EmptyBag
    /\ nextEntryId = 1
    /\ selectedNote = <<>>
    /\ pendingNoteDeletes = EmptyBag
    /\ pageCalls = 0
    /\ activeTab = "record"
    /\ panelsKeptMounted \in BOOLEAN
    /\ orphanSaves = EmptyBag
    /\ orphanEntryCreates = EmptyBag
    /\ orphanNoteDeletes = EmptyBag
    /\ orphanStarts = 0
    /\ orphanOnstop = 0
    /\ orphanReads = 0
    /\ orphanTranscribes = 0
    /\ orphanCorrections = 0

\* The page once the content is shown: the changes of tab, the recorder, the
\* Dictionary page and the History page, and the continuations of unmounted
\* components.  A recording is started and a save is issued while the calls
\* explored are below MaxCalls.
PageNext ==
    \/ \E tab \in TabNames : SelectTab(tab)
    \/ CallsExplored < MaxCalls /\ StartRecording
    \/ GetUserMediaResolves
    \/ GetUserMediaRejects
    \/ StopRecording
    \/ OnStop
    \/ ReadLoads
    \/ ReadFails
    \/ \E text \in PageTexts : TranscribeResolves(text)
    \/ TranscribeRejects
    \/ \E c \in BagToSet(pendingCorrections), answer \in PageTexts : CorrectResolves(c, answer)
    \/ \E c \in BagToSet(pendingCorrections) : CorrectRejects(c)
    \/ \E text \in PageTexts : EditOriginal(text)
    \/ \E text \in PageTexts : EditCorrected(text)
    \/ ReprocessText
    \/ SaveRequest(MaxCalls - pageCalls - BagCardinality(orphanSaves) - RecordingsAfterFirst)
    \/ \E s \in BagToSet(pendingSaves) : CreateResolves(s)
    \/ \E s \in BagToSet(pendingSaves) : CreateRejects(s)
    \/ OrphanGetUserMediaResolves
    \/ OrphanGetUserMediaRejects
    \/ OrphanOnStop
    \/ OrphanReadLoads
    \/ OrphanReadFails
    \/ OrphanTranscribeResolves
    \/ OrphanTranscribeRejects
    \/ OrphanCorrectionEnds
    \/ \E s \in BagToSet(orphanSaves) : OrphanCreateResolves(s)
    \/ \E s \in BagToSet(orphanSaves) : OrphanCreateRejects(s)
    \/ \E r \in BagToSet(orphanEntryCreates) : OrphanEntryCreateResolves(r)
    \/ \E r \in BagToSet(orphanEntryCreates) : OrphanEntryCreateRejects(r)
    \/ \E id \in BagToSet(orphanNoteDeletes) : OrphanNoteDeleteResolves(id)
    \/ \E id \in BagToSet(orphanNoteDeletes) : OrphanNoteDeleteRejects(id)
    \/ \E text \in WordInputs : TypeWord(text)
    \/ \E text \in SpellingInputs : TypeSpelling(text)
    \/ HandleAddEntry
    \/ CreateEntryResolves
    \/ CreateEntryRejects
    \/ \E i \in 1..Len(dictionary) : HandleDeleteEntry(i)
    \/ \E id \in BagToSet(pendingEntryDeletes) : DeleteEntryResolves(id)
    \/ \E id \in BagToSet(pendingEntryDeletes) : DeleteEntryRejects(id)
    \/ \E i \in 1..Len(notes) : SelectNote(i)
    \/ \E i \in 1..Len(notes) : HandleDeleteNote(i)
    \/ \E d \in BagToSet(pendingNoteDeletes) : DeleteNoteResolves(d)
    \/ \E d \in BagToSet(pendingNoteDeletes) : DeleteNoteRejects(d)

PageSpec == ReadyInit /\ [][PageNext]_vars

\* ================================================================ claims
\* Number of correction and transcription calls in flight.
CorrectionsInFlight == BagCardinality(pendingCorrections)
AiCallsInFlight == pendingTranscribes + CorrectionsInFlight

\* C1: a save request made while originalText or correctedText is empty is
\* rejected: it issues no create call and leaves the note list and both texts as
\* they were, and the user is told there is no text to save.
C1_EmptySaveRejected ==
    [][(SaveNote /\ (originalText = Empty \/ correctedText = Empty))
         => /\ pendingSaves' = pendingSaves
            /\ notes' = notes
            /\ originalText' = originalText
            /\ correctedText' = correctedText
            /\ event'.op = "saveRejected"]_vars

\* C1 witness: a save was rejected with a transcript shown and no corrected text.
C1_Witness ==
    /\ event.op = "saveRejected"
    /\ originalText # Empty
    /\ correctedText = Empty
    /\ pendingSaves = EmptyBag

\* C2 (as claimed): when the create call of a save fails, both texts and the note
\* list stay as they were and the save is not reported as a success.
C2_FailedSaveKeepsState ==
    [][event'.op = "createFail"
         => /\ originalText' = originalText
            /\ correctedText' = correctedText
            /\ notes' = notes
            /\ event'.toast # "Note saved!"]_vars

\* C3 (as claimed): right after a failed correction call correctedText equals
\* originalText and the correcting flag is cleared.
C3_FallbackEqualsOriginal ==
    event.op = "correctFail" => (correctedText = originalText /\ ~isProcessing)

\* C4 (as claimed): a re-correct request sends the unedited transcript to the
\* Correction Client, whatever was typed into the text fields since transcription.
C4_ReprocessSendsTranscript ==
    [][event'.op = "reprocess"
         => pendingCorrections' =
                pendingCorrections (+) SetToBag({Correction(transcript, "reprocess")})]_vars

\* C4 (amended): a re-correct request sends the current content of originalText,
\* manual edits to it included, and a correction that succeeds replaces
\* correctedText, whatever it held, by the trimmed answer.
C4_ReprocessSendsCurrentOriginal ==
    [][/\ event'.op = "reprocess"
            => pendingCorrections' =
                   pendingCorrections (+) SetToBag({Correction(originalText, "reprocess")})
       /\ event'.op = "correctOk" => correctedText' = Trim(event'.res)]_vars

\* C4 witness: a re-correct request was made after originalText was edited away
\* from the transcript, and the edited text is what the call in flight carries.
C4_Witness ==
    /\ event.op = "reprocess"
    /\ transcript # originalText
    /\ BagIn(Correction(originalText, "reprocess"), pendingCorrections)

\* C5 (as claimed): when a correction step has finished, both texts are non-empty
\* and neither busy flag is set, so the note can be saved.
C5_CorrectionEndsReadyToSave ==
    event.op \in {"correctOk", "correctFail"}
        => /\ originalText # Empty
           /\ correctedText # Empty
           /\ ~isTranscribing
           /\ ~isProcessing

\* C6 (as claimed): at most one microphone stream is live and at most one recorder
\* is recording at any time.
C6_OneCaptureSession ==
    /\ Cardinality(liveStreams) <= 1
    /\ Cardinality(activeRecorders) <= 1

\* C7 (as claimed): whenever the workflow is not recording and no start is
\* pending, no acquired microphone stream is left unreleased.
C7_StreamsReleased ==
    (~isRecording /\ pendingStarts = 0) => liveStreams = {}

\* C8 (as claimed): at most one AI call is in flight, and a re-correct request
\* never starts a correction while a transcription or a correction is pending.
C8_AiCallsSequential ==
    /\ AiCallsInFlight <= 1
    /\ event.op = "reprocess" => AiCallsInFlight = 1

\* What C9 says of every step but the end of a read: an effective stop queues
\* exactly one stop event, a stop while idle does nothing, every stop event starts
\* exactly one transcription attempt (one run of transcribeAudio, which begins by
\* reading the blob), a transcription call is issued only by an attempt, once, and
\* no other step (a failed transcription or correction among them) starts an
\* attempt, a transcription call or a correction call again.
C9_StopsAndAttempts ==
    /\ event'.op = "stop"
         => /\ isRecording
            /\ pendingOnstop' = pendingOnstop + 1
            /\ UNCHANGED <<pendingReads, pendingTranscribes>>
    /\ event'.op = "stopIgnored"
         => /\ ~isRecording
            /\ UNCHANGED <<pendingOnstop, pendingReads, pendingTranscribes,
                           pendingCorrections>>
    /\ event'.op # "stop" => pendingOnstop' <= pendingOnstop
    /\ pendingReads' > pendingReads
         => /\ pendingReads' = pendingReads + 1
            /\ pendingOnstop' = pendingOnstop - 1
    /\ pendingOnstop' < pendingOnstop
         => /\ pendingOnstop' = pendingOnstop - 1
            /\ pendingReads' = pendingReads + 1
            /\ pendingTranscribes' = pendingTranscribes
    /\ pendingTranscribes' > pendingTranscribes
         => /\ pendingTranscribes' = pendingTranscribes + 1
            /\ pendingReads' = pendingReads - 1
    /\ TranscribeRejects => UNCHANGED <<pendingOnstop, pendingReads, pendingCorrections>>
    /\ event'.op = "correctFail"
         => /\ CorrectionsInFlight' = CorrectionsInFlight - 1
            /\ UNCHANGED <<pendingOnstop, pendingReads, pendingTranscribes>>

\* C9 (as claimed): each effective stop fires exactly one transcription attempt
\* and the transcription calls are as many as the effective stops: every attempt
\* issues its one transcription call; nothing is retried.
C9_OneTranscriptionPerStop ==
    [][/\ C9_StopsAndAttempts
       /\ pendingReads' < pendingReads
            => /\ pendingReads' = pendingReads - 1
               /\ pendingTranscribes' = pendingTranscribes + 1]_vars

\* C9 (amended): each effective stop fires exactly one transcription attempt; an
\* attempt issues one transcription call when the read of the recorded blob
\* loads, and none when the read fails: then the attempt ends with isTranscribing
\* reset and no transcription or correction call; nothing is retried.
C9_OneAttemptPerStop ==
    [][/\ C9_StopsAndAttempts
       /\ pendingReads' < pendingReads
            => /\ pendingReads' = pendingReads - 1
               /\ \/ pendingTranscribes' = pendingTranscribes + 1
                  \/ /\ ~isTranscribing'
                     /\ UNCHANGED <<pendingOnstop, pendingTranscribes, pendingCorrections,
                                    originalText, correctedText>>]_vars

\* C9 witness: one recording was stopped and its attempt has ended at the failed
\* read: no stop event, read or call is left and nothing was transcribed.
C9_Witness ==
    /\ streamsAcquired = 1
    /\ mediaRecorder = 1
    /\ ~isRecording
    /\ ~isTranscribing
    /\ activeRecorders = {}
    /\ pendingStarts = 0
    /\ pendingOnstop = 0
    /\ pendingReads = 0
    /\ pendingTranscribes = 0
    /\ pendingCorrections = EmptyBag
    /\ originalText = Empty

\* C10 (as claimed): after me() has failed, isLoading stays true and the content
\* is never shown.
C10_AuthFailureKeepsLoading ==
    (initPc = "done" /\ user = NULL) => (isLoading /\ ~ContentShown)

\* C10 (amended): after me() has failed, initialization has ended with isLoading
\* false, so the content is shown, with no user and with the empty note and
\* dictionary lists the app started with (no list call is made, no note is created).
C10_AuthFailureShowsContent ==
    (initPc = "done" /\ user = NULL)
        => /\ ~isLoading
           /\ ContentShown
           /\ notes = <<>>
           /\ dictionary = <<>>
           /\ pendingSaves = EmptyBag

\* C10 witness: me() failed and the recorder is in use.
C10_Witness ==
    /\ initPc = "done"
    /\ user = NULL
    /\ ContentShown
    /\ isRecording

\* C11: in every dictionary add the word sent to the store is the lower-case form
\* of the word argument (no upper-case character, the same letters), and after
\* any adds and deletes on a list loaded in ascending order the in-memory
\* dictionary is sorted ascending by word.
C11_LowercaseAndSorted ==
    /\ \A r \in BagToSet(SeqToBag(pendingEntryCreates)) \cup BagToSet(orphanEntryCreates) :
          /\ Len(r.word) = Len(r.input)
          /\ \A i \in 1..Len(r.word) :
                CaseKey(r.word[i]) = 0 /\ Rank(r.word[i]) = Rank(r.input[i])
    /\ \A i \in 1..(Len(dictionary) - 1) :
          LocaleCompare(dictionary[i].word, dictionary[i + 1].word) <= 0

\* C11 witness: of the two entries loaded, the first was deleted, and an entry
\* added in this session from the input "A " stands before the other.
C11_Witness ==
    /\ pageCalls = 2
    /\ dictionary = <<[id |-> 1, word |-> <<"a">>, correct_spelling |-> <<"x">>],
                      StoredEntry>>

\* C12: the note list and the dictionary change only in the step in which a
\* create or delete call of the store resolves; they are unchanged while a call is
\* pending and when it rejects, and every entry they hold has an id the store
\* has handed out.
C12_MirrorAfterStore ==
    /\ [](/\ \A i \in 1..Len(notes) : notes[i].id < nextNoteId
          /\ \A i \in 1..Len(dictionary) : dictionary[i].id < nextEntryId)
    /\ [][/\ notes' # notes =>
                \/ \E s \in BagToSet(pendingSaves) : CreateResolves(s)
                \/ \E s \in BagToSet(orphanSaves) : OrphanCreateResolves(s)
                \/ \E d \in BagToSet(pendingNoteDeletes) : DeleteNoteResolves(d)
                \/ \E id \in BagToSet(orphanNoteDeletes) : OrphanNoteDeleteResolves(id)
          /\ dictionary' # dictionary =>
                \/ CreateEntryResolves
                \/ \E r \in BagToSet(orphanEntryCreates) : OrphanEntryCreateResolves(r)
                \/ \E id \in BagToSet(pendingEntryDeletes) : DeleteEntryResolves(id)]_vars

\* C12 witness: a note create and an entry create are in flight and both lists
\* are still as they were loaded.
C12_Witness ==
    /\ pendingSaves (+) orphanSaves # EmptyBag
    /\ pendingEntryCreates # <<>>
    /\ notes = <<>>
    /\ dictionary = <<EarlierEntry, StoredEntry>>

\* C13 (as claimed): when a delete of note X resolves, the selected note is not X,
\* whatever was selected while the delete was in flight.
C13_DeleteClearsSelection ==
    [][/\ \A d \in BagToSet(pendingNoteDeletes) :
             DeleteNoteResolves(d) => ~SelectionIs(selectedNote', d.id)
       /\ \A id \in BagToSet(orphanNoteDeletes) :
             OrphanNoteDeleteResolves(id) => ~SelectionIs(selectedNote', id)]_vars

\* C14: a successful save puts the created note, with the saved texts, in front of
\* the previous list, which keeps its order: the list grows by exactly one.
C14_NewestFirst ==
    [][\A s \in BagToSet(pendingSaves) \cup BagToSet(orphanSaves) :
          (CreateResolves(s) \/ OrphanCreateResolves(s)) =>
             /\ Len(notes') = Len(notes) + 1
             /\ Tail(notes') = notes
             /\ Head(notes').originalText = s.originalText
             /\ Head(notes').correctedText = s.correctedText
             /\ \A i \in 1..Len(notes) : notes[i].id # Head(notes').id]_vars

\* C14 witness: two saves have succeeded, the later note stands before the earlier
\* one, and the texts are cleared.
C14_Witness ==
    /\ Len(notes) = 2
    /\ notes[1].id = 2
    /\ notes[2].id = 1
    /\ originalText = Empty

\* C15 (as claimed): for the capture result PageSpec starts with, that is as long
\* as no further recording has been started, the create calls in flight and the
\* notes created are together at most one.
C15_SavedAtMostOnce ==
    RecordingsAfterFirst = 0 =>
        (nextNoteId - 1) + BagCardinality(pendingSaves) + BagCardinality(orphanSaves) <= 1

====
